---------------------------- MODULE Spec2Model ----------------------------
(***************************************************************************)
(* A model of langchain-avp: AVPCredentialProvider (credential_provider.py),*)
(* get_llm_with_avp (utils.py) and AVPCredentialCallback (callbacks.py).    *)
(*                                                                         *)
(* Python values are modelled as follows.                                   *)
(*   str    a sequence of Unicode code points (integers)                    *)
(*   bytes  a sequence of integers 0..255                                   *)
(*   None   the sequence <<-1>> (no str holds the code point -1)            *)
(*   dict of str to str (labels)   a set of <<key, value>> pairs            *)
(* A call's outcome is a record [kind, val]: kind "return" with the value   *)
(* returned, or kind "raise" with the name of the exception.                *)
(***************************************************************************)
EXTENDS Integers, Sequences, FiniteSets, TLC

None == <<-1>>

Return(v) == [kind |-> "return", val |-> v]

Raise(e) == [kind |-> "raise", val |-> e]

(***************************************************************************)
(* Bounds of the model.                                                    *)
(***************************************************************************)
\* close() calls counted before the model stops taking further ones
MaxCloseCalls == 2

\* LLM runs the callers of the callback start, all together
MaxRuns == 2

(***************************************************************************)
(* str.lower(), str.encode() and bytes.decode() (UTF-8, strict).           *)
(***************************************************************************)
\* ASCII A-Z and the Latin-1 capitals map to their lower-case code point
LowerCp(c) ==
    IF (c >= 65 /\ c <= 90) \/ (c >= 192 /\ c <= 222 /\ c # 215)
    THEN c + 32
    ELSE c

lower(s) == [i \in 1..Len(s) |-> LowerCp(s[i])]

IsSurrogate(c) == c >= 55296 /\ c <= 57343

EncodeCp(c) ==
    IF c < 128 THEN <<c>>
    ELSE IF c < 2048 THEN <<192 + (c \div 64), 128 + (c % 64)>>
    ELSE <<224 + (c \div 4096), 128 + ((c \div 64) % 64), 128 + (c % 64)>>

RECURSIVE EncodeAll(_)
EncodeAll(s) == IF s = <<>> THEN <<>> ELSE EncodeCp(Head(s)) \o EncodeAll(Tail(s))

\* str.encode(): a lone surrogate cannot be encoded
encode(s) ==
    IF \E i \in 1..Len(s) : IsSurrogate(s[i])
    THEN Raise("UnicodeEncodeError")
    ELSE Return(EncodeAll(s))

IsCont(b) == b >= 128 /\ b <= 191

\* the code points of a well-formed UTF-8 byte string, or None when the
\* bytes are not well-formed (a bad lead byte, a missing continuation
\* byte, an overlong form, an encoded surrogate)
RECURSIVE DecodeAll(_)
DecodeAll(b) ==
    IF b = <<>> THEN <<>>
    ELSE LET b1 == b[1]
             one == b1 < 128
             two == b1 >= 194 /\ b1 <= 223 /\ Len(b) >= 2 /\ IsCont(b[2])
             cp3 == (b1 - 224) * 4096 + (b[2] - 128) * 64 + (b[3] - 128)
             three == /\ b1 >= 224 /\ b1 <= 239 /\ Len(b) >= 3
                      /\ IsCont(b[2]) /\ IsCont(b[3])
                      /\ cp3 >= 2048 /\ ~IsSurrogate(cp3)
             n == IF one THEN 1 ELSE IF two THEN 2 ELSE IF three THEN 3 ELSE 0
             cp == IF one THEN b1
                   ELSE IF two THEN (b1 - 192) * 64 + (b[2] - 128)
                   ELSE cp3
         IN IF n = 0 THEN None
            ELSE LET rest == DecodeAll(SubSeq(b, n + 1, Len(b)))
                 IN IF rest = None THEN None ELSE <<cp>> \o rest

\* a decoder that takes every byte for one code point (latin-1)
decode_latin1(b) == Return(b)

\* bytes.decode()
decode(b) ==
    LET s == DecodeAll(b)
    IN IF s = None THEN Raise("UnicodeDecodeError") ELSE Return(s)

(***************************************************************************)
(* Inputs.                                                                 *)
(***************************************************************************)
ApiKeySuffix == <<95, 97, 112, 105, 95, 107, 101, 121>>                \* "_api_key"

Anthropic == <<97, 110, 116, 104, 114, 111, 112, 105, 99>>             \* "anthropic"
OpenAI == <<111, 112, 101, 110, 97, 105>>                              \* "openai"
Cohere == <<99, 111, 104, 101, 114, 101>>                              \* "cohere"
HuggingFace == <<104, 117, 103, 103, 105, 110, 103, 102, 97, 99, 101>> \* "huggingface"
Google == <<103, 111, 111, 103, 108, 101>>                             \* "google"
Mistral == <<109, 105, 115, 116, 114, 97, 108>>                        \* "mistral"
Azure == <<97, 122, 117, 114, 101>>                                    \* "azure"

\* credential names the callers store: "anthropic_api_key", "azure_api_key"
CredNames == {Anthropic \o ApiKeySuffix, Azure \o ApiKeySuffix}

\* names asked for; "huggingface_api_key" is never stored
GetNames == CredNames \cup {HuggingFace \o ApiKeySuffix}

\* credential values: "", "é" and a lone surrogate "\ud800"
Values == {<<>>, <<233>>, <<55296>>}

\* get's default: None or "d"
Defaults == {None, <<100>>}

\* labels=None
NoLabels == {<<"None">>}

LabelMaps == { {}, {<<"env", "production">>}, {<<"env", "development">>},
               {<<"env", "production">>, <<"tier", "gold">>} }

SetLabels == {NoLabels} \cup (LabelMaps \ {{}})

ListFilters == {NoLabels, {}, {<<"env", "production">>}, {<<"tier", "gold">>},
                {<<"env", "production">>, <<"tier", "gold">>},
                {<<"env", "development">>, <<"tier", "gold">>}}

\* bytes another writer of the vault may leave: not well-formed UTF-8
RawBytes == {<<255>>}

VARIABLES
    secrets,      \* the backend's credentials: name -> [value: bytes, labels]
    health,       \* "ok", or "down" while the backend fails every request
    client,       \* self._client
    closeCalls,   \* how often the backend connection's close was invoked
    scope,        \* the with-block: "none", "entered" or "exited"
    ret,          \* the last call and its outcome ("env": the environment acted since)
    written,      \* history: name -> what the last set/rotate/delete left
    disturbed     \* history: what else than set and delete acted on the store

storeVars == <<secrets, health, client, closeCalls, scope, ret, written, disturbed>>

VARIABLES
    entries,      \* the entry dicts in memory: id -> dict; an id is <<caller, n>>
    audit_log,    \* self._audit_log: a list of references (ids) to entry dicts
    current_run,  \* self._current_run
    pc,           \* caller -> where it stands in the handler it is running
    handler,      \* caller -> the handler it is running or ran last
    running,      \* caller -> whether it has an LLM run started and not ended
    runs,         \* caller -> LLM runs it has started
    entry,        \* caller -> the local variable entry of _log
    stale,        \* caller -> the list it loaded in _log is no longer self._audit_log
    logged,       \* history: caller -> _log calls of it that have returned
    snap,         \* the list the last get_audit_log returned: which list, its items
    recorded,     \* history: the entries appended since the last clear, by value
    cleared       \* history: "no" clear_audit_log yet, "just" now, or "before"

auditVars == <<entries, audit_log, current_run, pc, handler, running, runs, entry,
               stale, logged, snap, recorded, cleared>>

vars == <<storeVars, auditVars>>

(***************************************************************************)
(* The secret backend behind AVPClient (an external library): its contract. *)
(***************************************************************************)
retrieve(name) ==
    IF health # "ok" THEN Raise("BackendError")
    ELSE IF name \notin DOMAIN secrets THEN Raise("SecretNotFound")
    ELSE Return(secrets[name].value)

store(name, value, labels) ==
    IF health # "ok" THEN [out |-> Raise("BackendError"), secrets |-> secrets]
    ELSE [out |-> Return(None),
          secrets |-> [n \in DOMAIN secrets \cup {name} |->
                         IF n = name
                         THEN [value |-> value,
                               labels |-> IF labels = NoLabels THEN {} ELSE labels]
                         ELSE secrets[n]]]

backend_delete(name) ==
    IF health # "ok" THEN [out |-> Raise("BackendError"), secrets |-> secrets]
    ELSE [out |-> Return(name \in DOMAIN secrets),
          secrets |-> [n \in DOMAIN secrets \ {name} |-> secrets[n]]]

\* keepLabels: whether the backend keeps the labels of a rotated secret
backend_rotate(name, value, keepLabels) ==
    IF health # "ok" THEN [out |-> Raise("BackendError"), secrets |-> secrets]
    ELSE IF name \notin DOMAIN secrets
    THEN [out |-> Raise("SecretNotFound"), secrets |-> secrets]
    ELSE [out |-> Return(None),
          secrets |-> [secrets EXCEPT ![name] =
                         [value |-> value,
                          labels |-> IF keepLabels THEN @.labels ELSE {}]]]

list_secrets(filter_labels) ==
    IF health # "ok" THEN Raise("BackendError")
    ELSE Return({n \in DOMAIN secrets :
                   \/ filter_labels = NoLabels
                   \/ filter_labels \subseteq secrets[n].labels})

(***************************************************************************)
(* AVPCredentialProvider.                                                  *)
(***************************************************************************)
\* get without its try/except
get_uncaught(name, default) ==
    LET r == retrieve(name)
    IN IF r.kind = "raise" THEN r ELSE decode(r.val)

get(name, default) ==
    LET r == retrieve(name)
    IN IF r.kind = "raise" THEN Return(default)
       ELSE LET d == decode(r.val)
            IN IF d.kind = "raise" THEN Return(default) ELSE d

set(name, value, labels) ==
    LET e == encode(value)
    IN IF e.kind = "raise" THEN [out |-> e, secrets |-> secrets]
       ELSE store(name, e.val, labels)

delete(name) == backend_delete(name)

\* list passing no filter on to the backend
list_unfiltered(labels) ==
    list_secrets(NoLabels)

list(labels) ==
    list_secrets(labels)

rotate(name, new_value, keepLabels) ==
    LET e == encode(new_value)
    IN IF e.kind = "raise" THEN [out |-> e, secrets |-> secrets]
       ELSE backend_rotate(name, e.val, keepLabels)

\* key_mapping: pairs <<provider, credential name>>, as written in the source
key_mapping ==
    {
       <<<<97, 110, 116, 104, 114, 111, 112, 105, 99>>,
         <<97, 110, 116, 104, 114, 111, 112, 105, 99, 95, 97, 112, 105, 95, 107, 101, 121>>>>,
       <<<<111, 112, 101, 110, 97, 105>>,
         <<111, 112, 101, 110, 97, 105, 95, 97, 112, 105, 95, 107, 101, 121>>>>,
       <<<<99, 111, 104, 101, 114, 101>>,
         <<99, 111, 104, 101, 114, 101, 95, 97, 112, 105, 95, 107, 101, 121>>>>,
       <<<<104, 117, 103, 103, 105, 110, 103, 102, 97, 99, 101>>,
         <<104, 117, 103, 103, 105, 110, 103, 102, 97, 99, 101, 95, 97, 112, 105, 95, 107, 101, 121>>>>,
       <<<<103, 111, 111, 103, 108, 101>>,
         <<103, 111, 111, 103, 108, 101, 95, 97, 112, 105, 95, 107, 101, 121>>>>,
       <<<<109, 105, 115, 116, 114, 97, 108>>,
         <<109, 105, 115, 116, 114, 97, 108, 95, 97, 112, 105, 95, 107, 101, 121>>>>
    }

\* dict.get(key, default)
dict_get(d, key, default) ==
    IF \E kv \in d : kv[1] = key
    THEN (CHOOSE kv \in d : kv[1] = key)[2]
    ELSE default

\* the credential name without lower-casing the provider
credential_name_cased(provider) ==
    dict_get(key_mapping, provider, provider \o ApiKeySuffix)

credential_name(provider) ==
    dict_get(key_mapping, lower(provider), lower(provider) \o ApiKeySuffix)

get_api_key(provider) ==
    get(credential_name(provider), None)

\* close(): self._client is never reset, so the guard holds on every call
close ==
    IF client # "None" THEN closeCalls + 1 ELSE closeCalls

(***************************************************************************)
(* utils.get_llm_with_avp.                                                 *)
(***************************************************************************)
\* model=None is the string "None", which no caller passes as a model name
NoModel == "None"

ModelArgs == {NoModel, "my-model"}

\* x or y, for str x
Or(x, y) == IF x = NoModel \/ x = "" THEN y ELSE x

\* the branch of a supported provider: the import, then the constructor
construct(ctor, key_kwarg, api_key, model, default_model, sdk) ==
    IF ~sdk THEN Raise("ImportError")
    ELSE Return([ctor |-> ctor, key_kwarg |-> key_kwarg, api_key |-> api_key,
                 model |-> Or(model, default_model)])

\* the provider branches, entered whatever the api key is
dispatch(provider, api_key, model, sdk) ==
    LET p == lower(provider)
    IN IF p = Anthropic
       THEN construct("ChatAnthropic", "api_key", api_key, model,
                      "claude-3-haiku-20240307", sdk)
       ELSE IF p = OpenAI
       THEN construct("ChatOpenAI", "api_key", api_key, model, "gpt-3.5-turbo", sdk)
       ELSE IF p = Cohere
       THEN construct("ChatCohere", "cohere_api_key", api_key, model, "command", sdk)
       ELSE IF p = Mistral
       THEN construct("ChatMistralAI", "api_key", api_key, model,
                      "mistral-small-latest", sdk)
       ELSE Raise("ValueError: Unknown provider")

\* get_llm_with_avp testing "api_key is None" in place of "not api_key"
get_llm_with_avp_is_none(provider, model, sdk) ==
    LET api_key == get_api_key(provider).val
    IN IF api_key = None
       THEN Raise("ValueError: No API key found for provider")
       ELSE dispatch(provider, api_key, model, sdk)

\* get_llm_with_avp looking the provider up before the api key
get_llm_with_avp_provider_first(provider, model, sdk) ==
    LET api_key == get_api_key(provider).val
        d == dispatch(provider, api_key, model, sdk)
    IN IF d = Raise("ValueError: Unknown provider") THEN d
       ELSE IF api_key = None \/ api_key = <<>>
       THEN Raise("ValueError: No API key found for provider")
       ELSE d

\* sdk: whether the provider's langchain package can be imported
get_llm_with_avp(provider, model, sdk) ==
    LET api_key == get_api_key(provider).val
    IN IF api_key = None \/ api_key = <<>>
       THEN Raise("ValueError: No API key found for provider")
       ELSE dispatch(provider, api_key, model, sdk)

\* provider arguments: the six names of key_mapping, "Anthropic", "OPENAI",
\* "MISTRAL", "azure" and "Azure"
Providers ==
    {Anthropic, OpenAI, Cohere, HuggingFace, Google, Mistral, Azure,
     <<65, 110, 116, 104, 114, 111, 112, 105, 99>>,
     <<79, 80, 69, 78, 65, 73>>,
     <<77, 73, 83, 84, 82, 65, 76>>,
     <<65, 122, 117, 114, 101>>}

(***************************************************************************)
(* callbacks.AVPCredentialCallback. Each caller is a thread of the host     *)
(* that reports its LLM runs to the one callback object; a step of the      *)
(* model is what a thread does between two points where the interpreter may *)
(* switch threads. list.append is one such step.                            *)
(***************************************************************************)
Callers == {"t1", "t2"}

NoRun == <<"None">>

NoEntry == [event |-> "none"]

\* the run_id (a UUID) of caller c's r-th run
RunId(c, r) == <<"uuid", c, r>>

\* str(run_id) if run_id else None
RunIdStr(run_id) == IF run_id = NoRun THEN NoRun ELSE <<"str", run_id[2], run_id[3]>>

EventOf(h) ==
    IF h = "on_llm_start" THEN "llm_start"
    ELSE IF h = "on_llm_end" THEN "llm_end"
    ELSE "llm_error"

MetadataOf(h) ==
    IF h = "on_llm_start" THEN {"provider", "model", "prompt_count"}
    ELSE IF h = "on_llm_end" THEN {"generations", "token_usage"}
    ELSE {"error", "error_type"}

\* list.insert(0, x)
list_prepend(l, x) == <<x>> \o l

\* list.append(x)
list_append(l, x) == Append(l, x)

\* list.copy(): a new list ("copy"), not the list copied ("log"), holding
\* the same references
list_copy(l) == [list |-> "copy", items |-> [i \in 1..Len(l) |-> l[i]]]

InitAudit ==
    /\ entries = [i \in {} |-> None]
    /\ audit_log = <<>>
    /\ current_run = NoRun
    /\ pc = [c \in Callers |-> "idle"]
    /\ handler = [c \in Callers |-> "none"]
    /\ running = [c \in Callers |-> FALSE]
    /\ runs = [c \in Callers |-> 0]
    /\ entry = [c \in Callers |-> NoEntry]
    /\ stale = [c \in Callers |-> FALSE]
    /\ logged = [c \in Callers |-> 0]
    /\ snap = [list |-> "none", items |-> <<>>]
    /\ recorded = <<>>
    /\ cleared = "no"

RunsStarted == runs["t1"] + runs["t2"]

\* on_llm_start is called with the run_id of a new run
on_llm_start(c) ==
    /\ pc[c] = "idle" /\ ~running[c] /\ RunsStarted < MaxRuns
    /\ runs' = [runs EXCEPT ![c] = @ + 1]
    /\ handler' = [handler EXCEPT ![c] = "on_llm_start"]
    /\ pc' = [pc EXCEPT ![c] = "set_run"]
    /\ UNCHANGED <<storeVars, entries, audit_log, current_run, running, entry, stale,
                   logged, snap, recorded, cleared>>

\* on_llm_start: self._current_run = str(run_id) if run_id else None
set_current_run(c) ==
    /\ pc[c] = "set_run"
    /\ current_run' = RunIdStr(RunId(c, runs[c]))
    /\ pc' = [pc EXCEPT ![c] = "build"]
    /\ UNCHANGED <<storeVars, entries, audit_log, handler, running, runs, entry, stale,
                   logged, snap, recorded, cleared>>

\* on_llm_end or on_llm_error is called with the run_id of the caller's run
on_llm_end_or_error(c) ==
    \E h \in {"on_llm_end", "on_llm_error"} :
        /\ pc[c] = "idle" /\ running[c]
        /\ handler' = [handler EXCEPT ![c] = h]
        /\ pc' = [pc EXCEPT ![c] = "build"]
        /\ UNCHANGED <<storeVars, entries, audit_log, current_run, running, runs, entry,
                       stale, logged, snap, recorded, cleared>>

\* _log: entry = {"timestamp": ..., "event": event, "run_id": self._current_run},
\* then entry["metadata"] = metadata. The handlers do not pass their run_id
\* on; call_run_id (history) is the run_id the handler was called with.
log_build(c) ==
    /\ pc[c] = "build"
    /\ entry' = [entry EXCEPT ![c] =
                   [timestamp |-> "utcnow", event |-> EventOf(handler[c]),
                    run_id |-> current_run, metadata |-> MetadataOf(handler[c]),
                    call_run_id |-> RunId(c, runs[c])]]
    /\ pc' = [pc EXCEPT ![c] = "load"]
    /\ UNCHANGED <<storeVars, entries, audit_log, current_run, handler, running, runs,
                   stale, logged, snap, recorded, cleared>>

\* _log: the list self._audit_log is loaded for the append
log_load(c) ==
    /\ pc[c] = "load"
    /\ stale' = [stale EXCEPT ![c] = FALSE]
    /\ pc' = [pc EXCEPT ![c] = "append"]
    /\ UNCHANGED <<storeVars, entries, audit_log, current_run, handler, running, runs,
                   entry, logged, snap, recorded, cleared>>

\* _log: .append(entry) on the list loaded; on_llm_start returns after it
log_append(c) ==
    LET id == <<c, logged[c] + 1>>
    IN /\ pc[c] = "append"
       /\ entries' = [i \in DOMAIN entries \cup {id} |->
                        IF i = id THEN entry[c] ELSE entries[i]]
       /\ audit_log' = IF stale[c] THEN audit_log ELSE list_append(audit_log, id)
       /\ recorded' = IF stale[c] THEN recorded ELSE Append(recorded, entry[c])
       /\ logged' = [logged EXCEPT ![c] = @ + 1]
       /\ cleared' = IF cleared = "no" \/ stale[c] THEN cleared ELSE "before"
       /\ entry' = [entry EXCEPT ![c] = NoEntry]
       /\ stale' = [stale EXCEPT ![c] = FALSE]
       /\ IF handler[c] = "on_llm_start"
          THEN /\ pc' = [pc EXCEPT ![c] = "idle"]
               /\ running' = [running EXCEPT ![c] = TRUE]
               /\ handler' = [handler EXCEPT ![c] = "none"]
          ELSE /\ pc' = [pc EXCEPT ![c] = "reset"]
               /\ UNCHANGED <<running, handler>>
       /\ UNCHANGED <<storeVars, current_run, runs, snap>>

\* on_llm_end, on_llm_error: self._current_run = None
reset_current_run(c) ==
    /\ pc[c] = "reset"
    /\ current_run' = NoRun
    /\ pc' = [pc EXCEPT ![c] = "idle"]
    /\ running' = [running EXCEPT ![c] = FALSE]
    /\ handler' = [handler EXCEPT ![c] = "none"]
    /\ UNCHANGED <<storeVars, entries, audit_log, runs, entry, stale, logged,
                   snap, recorded, cleared>>

get_audit_log ==
    /\ snap' = list_copy(audit_log)
    /\ UNCHANGED <<storeVars, entries, audit_log, current_run, pc, handler, running,
                   runs, entry, stale, logged, recorded, cleared>>

\* self._audit_log = []: a list loaded before is not the log any more
clear_audit_log ==
    /\ audit_log' = <<>>
    /\ stale' = [c \in Callers |-> stale[c] \/ pc[c] = "append"]
    /\ recorded' = <<>>
    /\ cleared' = "just"
    /\ UNCHANGED <<storeVars, entries, current_run, pc, handler, running, runs, entry,
                   logged, snap>>

(***************************************************************************)
(* What the holder of a returned list may do to it. A change to the list    *)
(* reaches self._audit_log only if the list returned is that list.          *)
(***************************************************************************)
\* returned.clear()
SnapshotClear ==
    /\ snap.list # "none" /\ snap.items # <<>>
    /\ snap' = [snap EXCEPT !.items = <<>>]
    /\ audit_log' = IF snap.list = "log" THEN <<>> ELSE audit_log
    /\ UNCHANGED <<storeVars, entries, current_run, pc, handler, running,
                   runs, entry, stale, logged, recorded, cleared>>

\* returned.append(returned[0]), on a list no longer than the log
SnapshotAppend ==
    /\ snap.list # "none" /\ snap.items # <<>> /\ Len(snap.items) <= Len(audit_log)
    /\ snap' = [snap EXCEPT !.items = Append(@, @[1])]
    /\ audit_log' = IF snap.list = "log" THEN Append(audit_log, audit_log[1])
                    ELSE audit_log
    /\ UNCHANGED <<storeVars, entries, current_run, pc, handler, running,
                   runs, entry, stale, logged, recorded, cleared>>

\* returned[0]["event"] = "tampered"
SnapshotSetField ==
    /\ snap.list # "none" /\ snap.items # <<>>
    /\ entries[snap.items[1]].event # "tampered"
    /\ entries' = [entries EXCEPT ![snap.items[1]].event = "tampered"]
    /\ UNCHANGED <<storeVars, audit_log, current_run, pc, handler, running, runs,
                   entry, stale, logged, snap, recorded, cleared>>

(***************************************************************************)
(* The state after AVPCredentialProvider() and the calls.                  *)
(***************************************************************************)
Init ==
    /\ secrets = [n \in {} |-> None]
    /\ health = "ok"
    /\ client = "AVPClient"
    /\ closeCalls = 0
    /\ scope = "none"
    /\ ret = [op |-> "init"]
    /\ written = [n \in CredNames |-> [live |-> FALSE, value |-> None, labels |-> {}]]
    /\ disturbed = {}
    /\ InitAudit

Get ==
    \E name \in GetNames, default \in Defaults :
        /\ ret' = [op |-> "get", name |-> name, default |-> default,
                   out |-> get(name, default)]
        /\ UNCHANGED <<auditVars, secrets, health, client, closeCalls, scope, written, disturbed>>

Set ==
    \E name \in CredNames, value \in Values, labels \in SetLabels :
        LET r == set(name, value, labels)
        IN /\ secrets' = r.secrets
           /\ ret' = [op |-> "set", name |-> name, out |-> r.out]
           /\ written' = IF r.out.kind = "return"
                         THEN [written EXCEPT ![name] =
                                 [live |-> TRUE, value |-> value,
                                  labels |-> IF labels = NoLabels THEN {} ELSE labels]]
                         ELSE written
           /\ UNCHANGED <<auditVars, health, client, closeCalls, scope, disturbed>>

Delete ==
    \E name \in CredNames :
        LET r == delete(name)
        IN /\ secrets' = r.secrets
           /\ ret' = [op |-> "delete", name |-> name, out |-> r.out]
           /\ written' = IF r.out.kind = "return"
                         THEN [written EXCEPT ![name] =
                                 [live |-> FALSE, value |-> None, labels |-> {}]]
                         ELSE written
           /\ UNCHANGED <<auditVars, health, client, closeCalls, scope, disturbed>>

List ==
    \E labels \in ListFilters :
        /\ ret' = [op |-> "list", labels |-> labels, out |-> list(labels)]
        /\ UNCHANGED <<auditVars, secrets, health, client, closeCalls, scope, written, disturbed>>

Rotate ==
    \E name \in CredNames, new_value \in Values, keepLabels \in BOOLEAN :
        LET r == rotate(name, new_value, keepLabels)
        IN /\ secrets' = r.secrets
           /\ ret' = [op |-> "rotate", name |-> name, out |-> r.out]
           /\ written' = IF r.out.kind = "return"
                         THEN [written EXCEPT ![name].value = new_value]
                         ELSE written
           /\ disturbed' = IF r.out.kind = "return"
                           THEN disturbed \cup {"rotate"} ELSE disturbed
           /\ UNCHANGED <<auditVars, health, client, closeCalls, scope>>

GetApiKey ==
    \E provider \in Providers :
        /\ ret' = [op |-> "get_api_key", provider |-> provider,
                   out |-> get_api_key(provider)]
        /\ UNCHANGED <<auditVars, secrets, health, client, closeCalls, scope, written, disturbed>>

Build ==
    \E provider \in Providers, model \in ModelArgs, sdk \in BOOLEAN :
        /\ ret' = [op |-> "get_llm_with_avp", provider |-> provider,
                   model |-> model, sdk |-> sdk,
                   out |-> get_llm_with_avp(provider, model, sdk)]
        /\ UNCHANGED <<auditVars, secrets, health, client, closeCalls, scope, written, disturbed>>

\* close(); what a closed connection answers afterwards is the backend's
\* choice: it goes on serving (an in-memory backend) or fails every request
Close ==
    /\ closeCalls < MaxCloseCalls
    /\ closeCalls' = close
    /\ \E h \in {health, "down"} : health' = h
    /\ ret' = [op |-> "close", out |-> Return(None)]
    /\ disturbed' = disturbed \cup {"close"}
    /\ UNCHANGED <<auditVars, secrets, client, scope, written>>

\* __enter__
Enter ==
    /\ scope = "none"
    /\ scope' = "entered"
    /\ ret' = [op |-> "__enter__", out |-> Return("self")]
    /\ UNCHANGED <<auditVars, secrets, health, client, closeCalls, written, disturbed>>

\* __exit__, reached at the end of the block (exc FALSE) or by an exception
\* raised inside it (exc TRUE); it returns False, so the exception goes on
Exit ==
    \E exc \in BOOLEAN :
        /\ scope = "entered"
        /\ closeCalls < MaxCloseCalls
        /\ scope' = "exited"
        /\ closeCalls' = close
        /\ \E h \in {health, "down"} : health' = h
        /\ ret' = [op |-> "__exit__", exc |-> exc, out |-> Return(FALSE)]
        /\ disturbed' = disturbed \cup {"close"}
        /\ UNCHANGED <<auditVars, secrets, client, written>>

(***************************************************************************)
(* The environment of the store: the backend starts and stops failing, and  *)
(* another writer of the vault leaves bytes that are not UTF-8.             *)
(***************************************************************************)
BackendFault ==
    /\ health = "ok"
    /\ health' = "down"
    /\ disturbed' = disturbed \cup {"env"}
    /\ ret' = [op |-> "env"]
    /\ UNCHANGED <<auditVars, secrets, client, closeCalls, scope, written>>

BackendRecover ==
    /\ health = "down"
    /\ health' = "ok"
    /\ disturbed' = disturbed \cup {"env"}
    /\ ret' = [op |-> "env"]
    /\ UNCHANGED <<auditVars, secrets, client, closeCalls, scope, written>>

ExternalWrite ==
    \E name \in CredNames, raw \in RawBytes :
        /\ secrets' = [n \in DOMAIN secrets \cup {name} |->
                         IF n = name THEN [value |-> raw, labels |-> {}]
                         ELSE secrets[n]]
        /\ disturbed' = disturbed \cup {"env"}
        /\ ret' = [op |-> "env"]
        /\ UNCHANGED <<auditVars, health, client, closeCalls, scope, written>>

\* the store's own operations under a backend that may fail
NextStore ==
    \/ Get \/ Set \/ Delete \/ List \/ Rotate
    \/ BackendFault \/ BackendRecover \/ ExternalWrite

SpecStore == Init /\ [][NextStore]_vars

\* the store as a scoped resource
NextScope ==
    \/ Get \/ Set \/ Delete \/ Close \/ Enter \/ Exit
    \/ BackendFault \/ BackendRecover \/ ExternalWrite

SpecScope == Init /\ [][NextScope]_vars

\* the client factory over a store
NextFactory == Set \/ Delete \/ GetApiKey \/ Build \/ BackendFault \/ BackendRecover

SpecFactory == Init /\ [][NextFactory]_vars

\* the steps of the callers' handlers
CallerStep(c) ==
    \/ on_llm_start(c) \/ set_current_run(c) \/ on_llm_end_or_error(c)
    \/ log_build(c) \/ log_load(c) \/ log_append(c) \/ reset_current_run(c)

\* the callback under concurrent callers
NextAudit ==
    \/ \E c \in Callers : CallerStep(c)
    \/ clear_audit_log

SpecAudit == Init /\ [][NextAudit]_vars

\* the callback, its concurrent callers and the holders of its snapshots
NextSnapshot ==
    \/ \E c \in Callers : CallerStep(c)
    \/ get_audit_log \/ clear_audit_log
    \/ SnapshotClear \/ SnapshotAppend \/ SnapshotSetField

SpecSnapshot == Init /\ [][NextSnapshot]_vars

Next ==
    \/ NextStore \/ NextScope \/ NextFactory \/ NextAudit \/ NextSnapshot

Spec == Init /\ [][Next]_vars

(***************************************************************************)
(* Properties of the credential store.                                     *)
(***************************************************************************)
\* what the backend holds under name, decoded, or None when it holds nothing
\* or bytes that do not decode
StoredValue(name) ==
    IF name \in DOMAIN secrets /\ DecodeAll(secrets[name].value) # None
    THEN DecodeAll(secrets[name].value)
    ELSE None

GetReturnsValueOrDefault ==
    /\ \A name \in GetNames, default \in Defaults :
          LET o == get(name, default)
          IN /\ o.kind = "return"
             /\ \/ o.val = default
                \/ (StoredValue(name) # None /\ o.val = StoredValue(name))
    /\ ret.op = "get" =>
          /\ ret.out.kind = "return"
          /\ \/ ret.out.val = ret.default
             \/ (StoredValue(ret.name) # None /\ ret.out.val = StoredValue(ret.name))

\* C1: get(name, default) never raises: whether the name is absent, the
\* backend fails, the stored bytes do not decode or the connection was
\* closed, it returns the stored value of name or the given default, and a
\* get step leaves the stored credentials as they were.
C1_GetNeverRaises ==
    /\ []GetReturnsValueOrDefault
    /\ [][ret'.op = "get" => secrets' = secrets]_vars

\* a get of a stored, decodable credential answered by the default after
\* the connection was closed and the backend stopped serving
C1_Witness ==
    /\ ret.op = "get"
    /\ closeCalls >= 1
    /\ health = "down"
    /\ StoredValue(ret.name) = <<233>>
    /\ ret.default = <<100>>
    /\ ret.out = Return(<<100>>)

\* C2: after any sequence of set, rotate and delete calls, get(name, default)
\* returns the value of the most recent successful set or rotate of name if
\* no delete of name followed it, and default otherwise; what was done to
\* one name does not show in the get of another.
C2_GetReturnsLastWrite ==
    (disturbed \cap {"env", "close"} = {}) =>
        /\ \A name \in CredNames, default \in Defaults :
              get(name, default) =
                 Return(IF written[name].live THEN written[name].value ELSE default)
        /\ \A name \in GetNames \ CredNames, default \in Defaults :
              get(name, default) = Return(default)
        /\ (ret.op = "get" /\ ret.name \in CredNames) =>
              ret.out = Return(IF written[ret.name].live
                               THEN written[ret.name].value ELSE ret.default)

\* a get returning a rotated value while the other name was deleted
C2_Witness ==
    /\ disturbed = {"rotate"}
    /\ ret.op = "get"
    /\ ret.name \in CredNames
    /\ ret.out = Return(<<233>>)
    /\ \E other \in CredNames \ {ret.name} :
          /\ ~written[other].live
          /\ other \notin DOMAIN secrets

\* C7: after any sequence of set and delete calls, list(labels) returns the
\* names stored now whose labels hold every pair of the filter, and no other
\* name; with no filter or an empty one it returns every stored name.
C7_ListExactMatch ==
    (disturbed = {} /\ ret.op = "list") =>
        /\ ret.out.kind = "return"
        /\ ret.out.val =
              {n \in CredNames :
                 /\ written[n].live
                 /\ \A kv \in ret.labels \ NoLabels : kv \in written[n].labels}
        /\ (ret.labels \in {NoLabels, {}}) =>
              ret.out.val = {n \in CredNames : written[n].live}

\* a two-key filter that one of two stored names matches
C7_Witness ==
    /\ disturbed = {}
    /\ ret.op = "list"
    /\ ret.labels = {<<"env", "production">>, <<"tier", "gold">>}
    /\ Cardinality(ret.out.val) = 1
    /\ Cardinality(DOMAIN secrets) = 2

\* C5: the backend connection's close is invoked exactly once: once by the
\* time the with-block is left, and never a second time.
C5_ClosedExactlyOnce ==
    /\ closeCalls <= 1
    /\ scope = "exited" => closeCalls = 1

(***************************************************************************)
(* Properties of get_api_key and get_llm_with_avp.                          *)
(***************************************************************************)
\* C9: get_api_key(provider) returns what get(lower(provider) + "_api_key")
\* returns, for the six providers of key_mapping and for any other, in any
\* letter case; it never raises and returns None when no such credential is
\* stored.
C9_GetApiKeyResolves ==
    /\ \A provider \in Providers :
          LET key == lower(provider) \o ApiKeySuffix
          IN /\ get_api_key(provider) = get(key, None)
             /\ get_api_key(provider).kind = "return"
             /\ key \notin DOMAIN secrets => get_api_key(provider).val = None
    /\ ret.op = "get_api_key" =>
          ret.out = get(lower(ret.provider) \o ApiKeySuffix, None)

\* get_api_key("Anthropic") returning the credential stored under
\* "anthropic_api_key"
C9_Witness ==
    /\ ret.op = "get_api_key"
    /\ ret.provider # lower(ret.provider)
    /\ ret.out = Return(<<233>>)

Registered == {Anthropic, OpenAI, Cohere, Mistral}

NoApiKeyError == Raise("ValueError: No API key found for provider")

UnknownProviderError == Raise("ValueError: Unknown provider")

ExpectedCtor(p) ==
    IF p = Anthropic THEN "ChatAnthropic"
    ELSE IF p = OpenAI THEN "ChatOpenAI"
    ELSE IF p = Cohere THEN "ChatCohere"
    ELSE "ChatMistralAI"

\* what store.get(resolved key) returns in this state
ResolvedKey(provider) == get(lower(provider) \o ApiKeySuffix, None).val

IsBuild == ret.op = "get_llm_with_avp"

\* C3 as stated: for every store state, get_llm_with_avp with a provider
\* that has no registered constructor fails with the unsupported-provider
\* error.
C3_UnknownProviderAlwaysUnsupported ==
    (IsBuild /\ lower(ret.provider) \notin Registered) =>
        ret.out = UnknownProviderError

\* C3 as amended: with a provider that has no registered constructor,
\* get_llm_with_avp fails with the unsupported-provider error when get
\* returns a non-empty credential for the resolved key, and with the
\* missing-credential error when get returns None or "".
C3_UnknownProviderAfterKeyCheck ==
    (IsBuild /\ lower(ret.provider) \notin Registered) =>
        /\ ResolvedKey(ret.provider) \notin {None, <<>>}
              => ret.out = UnknownProviderError
        /\ ResolvedKey(ret.provider) \in {None, <<>>}
              => ret.out = NoApiKeyError

\* "Azure" with a credential under "azure_api_key": the unsupported-provider
\* error
C3_Witness ==
    /\ IsBuild
    /\ lower(ret.provider) \notin Registered
    /\ ResolvedKey(ret.provider) = <<233>>
    /\ ret.out = UnknownProviderError

\* C4 as stated: for a registered provider get_llm_with_avp fails with the
\* missing-credential error exactly when get(resolved key) is None; with
\* any stored value, the empty string included, it calls the provider's
\* constructor with that credential (the provider's package being there).
C4_MissingOnlyWhenNone ==
    (IsBuild /\ lower(ret.provider) \in Registered) =>
        /\ ret.out = NoApiKeyError <=> ResolvedKey(ret.provider) = None
        /\ (ResolvedKey(ret.provider) # None /\ ret.sdk) =>
              /\ ret.out.kind = "return"
              /\ ret.out.val.api_key = ResolvedKey(ret.provider)

\* C4 as amended: the missing-credential error is raised exactly when
\* get(resolved key) is None or the empty string, and then no constructor
\* is called; with a non-empty credential the provider's constructor is
\* called with it if the provider's package can be imported, and the call
\* fails with ImportError if not.
C4_MissingWhenNoneOrEmpty ==
    (IsBuild /\ lower(ret.provider) \in Registered) =>
        /\ ret.out = NoApiKeyError <=> ResolvedKey(ret.provider) \in {None, <<>>}
        /\ (ResolvedKey(ret.provider) \notin {None, <<>>} /\ ret.sdk) =>
              /\ ret.out.kind = "return"
              /\ ret.out.val.ctor = ExpectedCtor(lower(ret.provider))
              /\ ret.out.val.api_key = ResolvedKey(ret.provider)
        /\ (ResolvedKey(ret.provider) \notin {None, <<>>} /\ ~ret.sdk) =>
              ret.out = Raise("ImportError")

\* "anthropic" with the empty string stored: the missing-credential error
C4_Witness ==
    /\ IsBuild
    /\ lower(ret.provider) \in Registered
    /\ (lower(ret.provider) \o ApiKeySuffix) \in DOMAIN secrets
    /\ ResolvedKey(ret.provider) = <<>>
    /\ ret.out = NoApiKeyError

(***************************************************************************)
(* Properties of the audit log.                                            *)
(***************************************************************************)
\* what get_audit_log would return now, entry by entry
LogContents == [i \in 1..Len(audit_log) |-> entries[audit_log[i]]]

\* C6: what get_audit_log returned shares nothing with the log: adding or
\* removing elements of a returned list or changing a field of a returned
\* entry changes nothing of what get_audit_log returns later, and no entry
\* in the log changes after its append; the log holds, unchanged, the
\* entries appended since the last clear.
C6_SnapshotSharesNothing ==
    LogContents = recorded

EntryFields == {"timestamp", "event", "run_id", "metadata", "call_run_id"}

\* C8: with no clear so far, the log holds one complete entry for each
\* record call that has returned, each once, those of one caller in the
\* order of its calls; right after clear_audit_log the log is empty.
C8_OneEntryPerRecordInCallOrder ==
    /\ cleared = "no" =>
          /\ Len(audit_log) = logged["t1"] + logged["t2"]
          /\ \A i, j \in 1..Len(audit_log) :
                i < j => /\ audit_log[i] # audit_log[j]
                         /\ audit_log[i][1] = audit_log[j][1]
                               => audit_log[i][2] < audit_log[j][2]
          /\ \A i \in 1..Len(audit_log) :
                /\ DOMAIN entries[audit_log[i]] = EntryFields
                /\ entries[audit_log[i]].event \in {"llm_start", "llm_end", "llm_error"}
                /\ entries[audit_log[i]].call_run_id[2] = audit_log[i][1]
    /\ cleared = "just" => audit_log = <<>>

\* four record calls of two callers, interleaved, all returned
C8_Witness ==
    /\ cleared = "no"
    /\ Len(audit_log) = 4
    /\ audit_log[1][1] # audit_log[2][1]
    /\ audit_log[2][1] # audit_log[3][1]
    /\ \A c \in Callers : pc[c] = "idle" /\ logged[c] = 2

\* C10: every llm_end and llm_error entry of the log carries the run_id of
\* the run it ends, the one its handler was called with, as a string.
C10_TerminalEntryCarriesItsRunId ==
    \A i \in 1..Len(audit_log) :
        entries[audit_log[i]].event \in {"llm_end", "llm_error"} =>
            entries[audit_log[i]].run_id = RunIdStr(entries[audit_log[i]].call_run_id)

=============================================================================
